---- MODULE Spec2Model ----
(***************************************************************************)
(* A model of medical_seg/networks/nets/swin_transformer/model_2.py: the   *)
(* 3D Swin Transformer (CyclicShift, get_relative_distances,               *)
(* WindowAttention, PatchMerging, StageModule, SwinTransformer).           *)
(*                                                                         *)
(* Tensors whose element positions matter (CyclicShift, PatchMerging) are  *)
(* strided views over a flat store, as in torch: [shape, stride, store].   *)
(* An element of the store is the flat position the value had in the       *)
(* input, so that every output element names the input voxel it came from. *)
(* Tensors of learned floating point values (attention, the network) are   *)
(* modelled by their shape; every operation is modelled with the shape     *)
(* checks and the Python errors it raises.                                 *)
(***************************************************************************)
EXTENDS Integers, Sequences, FiniteSets, TLC

VARIABLES pc, err, x, inp, self, cfg, loc

vars == <<pc, err, x, inp, self, cfg, loc>>

(***************************************************************************)
(* Bounds of the model.                                                    *)
(***************************************************************************)
MaxSpatial == 2
MaxDisp == 2
MaxWin == 2
MaxPatchDim == 4
MaxFactor == 2
MaxChannels == 2
MaxLayers == 2

(***************************************************************************)
(* Strided tensors.                                                        *)
(***************************************************************************)
RECURSIVE Prod(_)
Prod(s) ==
    IF s = <<>> THEN 1 ELSE Head(s) * Prod(Tail(s))

RECURSIVE Dot(_, _)
Dot(a, b) ==
    IF a = <<>> THEN 0 ELSE Head(a) * Head(b) + Dot(Tail(a), Tail(b))

ContiguousStrides(shape) ==
    [k \in 1..Len(shape) |-> Prod(SubSeq(shape, k + 1, Len(shape)))]

\* the multi-index (0-based entries) of the n-th element (0-based) in row-major order
Unravel(n, shape) ==
    [k \in 1..Len(shape) |-> (n \div ContiguousStrides(shape)[k]) % shape[k]]

At(t, idx) ==
    t.store[1 + Dot(idx, t.stride)]

\* the input tensor: the value at a position is the position's flat index
Arange(shape) ==
    [shape |-> shape,
     stride |-> ContiguousStrides(shape),
     store |-> [n \in 1..Prod(shape) |-> n - 1]]

(***************************************************************************)
(* CyclicShift                                                             *)
(***************************************************************************)
Clamp(i, n) == IF i < 0 THEN 0 ELSE IF i > n - 1 THEN n - 1 ELSE i

RollNoWrap(t, shift, dim) ==
    [shape |-> t.shape,
     stride |-> ContiguousStrides(t.shape),
     store |-> [n \in 1..Prod(t.shape) |->
                  At(t, [Unravel(n - 1, t.shape) EXCEPT
                            ![dim + 1] = Clamp(@ - shift, t.shape[dim + 1])])]]

\* torch.roll along one axis (dim is 0-based): a new tensor whose element at
\* position i of that axis is the element at (i - shift) mod n of the input
Roll(t, shift, dim) ==
    [shape |-> t.shape,
     stride |-> ContiguousStrides(t.shape),
     store |-> [n \in 1..Prod(t.shape) |->
                  At(t, [Unravel(n - 1, t.shape) EXCEPT
                            ![dim + 1] = (@ - shift) % t.shape[dim + 1]])]]

\* CyclicShift.__init__
CyclicShift(displacement) ==
    [displacement |-> displacement]

\* CyclicShift.forward: torch.roll(x, shifts=(d0, d1, d2), dims=(1, 2, 3))
CyclicShiftForward(m, t) ==
    Roll(Roll(Roll(t, m.displacement[1], 1), m.displacement[2], 2), m.displacement[3], 3)

\* Python's floor division of a non-negative integer by 2
FloorDiv2(n) ==
    n \div 2

\* WindowAttention.__init__, the shifted branch: the pair of shifts of a window size
ShiftPair(window_size) ==
    LET displacement == <<FloorDiv2(window_size[1]), FloorDiv2(window_size[2]),
                          FloorDiv2(window_size[3])>>
    IN  [cyclic_shift |-> CyclicShift(<<-displacement[1], -displacement[2], -displacement[3]>>),
         cyclic_back_shift |-> CyclicShift(displacement)]

Dims == 1..MaxSpatial
Triples(S) == S \X S \X S
Neg(d) == <<-d[1], -d[2], -d[3]>>

CyclicShapes ==
    {<<b, s[1], s[2], s[3], 2>> : b \in 1..2, s \in Triples(Dims)}

InitCyclic ==
    /\ \E shape \in CyclicShapes : inp = Arange(shape)
    /\ x = inp
    /\ \/ \E d \in Triples(-MaxDisp..MaxDisp) :
            /\ cfg = [from |-> "displacement", displacement |-> d]
            /\ self = [cyclic_shift |-> CyclicShift(d), cyclic_back_shift |-> CyclicShift(Neg(d))]
       \/ \E w \in Triples(1..MaxWin + 1) :
            /\ cfg = [from |-> "window", window_size |-> w]
            /\ self = ShiftPair(w)
    /\ pc = "shift"
    /\ err = "none"
    /\ loc = <<>>

ApplyCyclicShift ==
    /\ pc = "shift"
    /\ x' = CyclicShiftForward(self.cyclic_shift, x)
    /\ pc' = "back_shift"
    /\ UNCHANGED <<err, inp, self, cfg, loc>>

ApplyCyclicBackShift ==
    /\ pc = "back_shift"
    /\ x' = CyclicShiftForward(self.cyclic_back_shift, x)
    /\ pc' = "done"
    /\ UNCHANGED <<err, inp, self, cfg, loc>>

NextCyclic ==
    \/ ApplyCyclicShift
    \/ ApplyCyclicBackShift

SpecCyclic == InitCyclic /\ [][NextCyclic]_vars

Ok(shape) == [err |-> "none", shape |-> shape]
Raise(e) == [err |-> e, shape |-> <<>>]

\* Tensor.squeeze(0): the first axis is dropped when its length is 1
SqueezeShape(r) ==
    IF r.err # "none" THEN r
    ELSE IF r.shape[1] = 1 THEN Ok(Tail(r.shape)) ELSE r

\* Tensor.unsqueeze(0)
UnsqueezeShape(r) ==
    IF r.err # "none" THEN r ELSE Ok(<<1>> \o r.shape)

\* Tensor.unfold(dim, size, step): floor((n - size) / step) + 1 slices of length
\* size, the slice length appended as a last axis; a slice longer than the axis raises
UnfoldShape(r, dim, size, step) ==
    IF r.err # "none" THEN r
    ELSE IF dim >= Len(r.shape) THEN Raise("IndexError")
    ELSE IF size > r.shape[dim + 1] THEN Raise("RuntimeError")
    ELSE Ok(Append([r.shape EXCEPT ![dim + 1] = (r.shape[dim + 1] - size) \div step + 1], size))

\* Tensor.permute(*dims): as many dims as the tensor has axes
PermuteShape(r, dims) ==
    IF r.err # "none" THEN r
    ELSE IF Len(dims) # Len(r.shape) THEN Raise("RuntimeError")
    ELSE Ok([k \in 1..Len(dims) |-> r.shape[dims[k] + 1]])

\* Tensor.view((a, b, c, -1)): the last length is inferred from the element count
ViewShape(r, known) ==
    IF r.err # "none" THEN r
    ELSE IF Prod(known) = 0 \/ Prod(r.shape) % Prod(known) # 0 THEN Raise("RuntimeError")
    ELSE Ok(Append(known, Prod(r.shape) \div Prod(known)))

\* nn.Linear(in_features, out_features) applied to the last axis
LinearShape(lin, r) ==
    IF r.err # "none" THEN r
    ELSE IF r.shape[Len(r.shape)] # lin.in_features THEN Raise("RuntimeError")
    ELSE Ok([r.shape EXCEPT ![Len(r.shape)] = lin.out_features])

(***************************************************************************)
(* PatchMerging                                                            *)
(***************************************************************************)
\* a Python argument that is an int or a tuple of ints; an int n is held as <<n>>
IntVal(n) == [kind |-> "int", v |-> <<n>>]
TupleVal(t) == [kind |-> "tuple", v |-> t]

\* PatchMerging.__init__: downscaling_factor[0] of an int raises TypeError
PatchMergingInit(in_channels, out_channels, downscaling_factor) ==
    IF downscaling_factor.kind # "tuple" THEN [err |-> "TypeError"]
    ELSE [err |-> "none",
          downscaling_factor |-> downscaling_factor.v,
          linear |-> [in_features |-> in_channels * downscaling_factor.v[1]
                                        * downscaling_factor.v[2] * downscaling_factor.v[3],
                      out_features |-> out_channels]]

\* lines 175-177: the three chained unfolds
UnfoldChainShape(r, f) ==
    UnfoldShape(UnfoldShape(UnfoldShape(r, 1, f[1], f[1]), 2, f[2], f[2]), 3, f[3], f[3])

\* line 178: x.permute(1, 2, 3, 0, 4, 5, 6)
PermuteOrder == <<1, 2, 3, 0, 4, 5, 6>>

\* line 173: new_h, new_w, new_d
NewDims(s, f) ==
    <<s[3] \div f[1], s[4] \div f[2], s[5] \div f[3]>>

\* PatchMerging.forward on shapes
PatchMergingShape(m, r) ==
    IF r.err # "none" THEN r
    ELSE LinearShape(m.linear,
            UnsqueezeShape(
               ViewShape(PermuteShape(UnfoldChainShape(SqueezeShape(r), m.downscaling_factor),
                                      PermuteOrder),
                         NewDims(r.shape, m.downscaling_factor))))

\* the same operations on strided tensors
Squeeze(t) ==
    IF t.shape[1] = 1
    THEN [t EXCEPT !.shape = Tail(t.shape), !.stride = Tail(t.stride)]
    ELSE t

UnfoldOverlapping(t, dim, size, step) ==
    [t EXCEPT !.shape = UnfoldShape(Ok(t.shape), dim, size, step).shape,
              !.stride = Append(t.stride, t.stride[dim + 1])]

Unfold(t, dim, size, step) ==
    [t EXCEPT !.shape = UnfoldShape(Ok(t.shape), dim, size, step).shape,
              !.stride = Append([t.stride EXCEPT ![dim + 1] = @ * step], t.stride[dim + 1])]

UnfoldChain(t, f) ==
    Unfold(Unfold(Unfold(t, 1, f[1], f[1]), 2, f[2], f[2]), 3, f[3], f[3])

Permute(t, dims) ==
    [t EXCEPT !.shape = [k \in 1..Len(dims) |-> t.shape[dims[k] + 1]],
              !.stride = [k \in 1..Len(dims) |-> t.stride[dims[k] + 1]]]

\* Tensor.contiguous(): the elements copied in row-major order
Contiguous(t) ==
    [shape |-> t.shape,
     stride |-> ContiguousStrides(t.shape),
     store |-> [n \in 1..Prod(t.shape) |-> At(t, Unravel(n - 1, t.shape))]]

\* view and unsqueeze of a contiguous tensor: the store is kept, the shape replaced
Reshape(t, shape) ==
    [t EXCEPT !.shape = shape, !.stride = ContiguousStrides(shape)]

\* the vector along the last axis at a position of the leading axes
Row(t, lead) ==
    [n \in 1..t.shape[Len(t.shape)] |-> At(t, Append(lead, n - 1))]

\* nn.Linear on a tensor: output feature o at a position is a function of the
\* whole input vector at that position
Linear(lin, t) ==
    LET shape == [t.shape EXCEPT ![Len(t.shape)] = lin.out_features]
    IN  [shape |-> shape,
         stride |-> ContiguousStrides(shape),
         store |-> [n \in 1..Prod(shape) |->
                      [feature |-> Unravel(n - 1, shape)[Len(shape)],
                       of |-> Row(t, SubSeq(Unravel(n - 1, shape), 1, Len(shape) - 1))]]]

PatchInputs ==
    {<<b, c, h, w, d>> : b \in 1..2, c \in 1..MaxChannels, h \in 1..MaxPatchDim,
                         w \in 1..MaxSpatial, d \in 1..MaxSpatial}

InitPatch ==
    /\ \E f \in Triples(1..MaxFactor), ic \in 1..MaxChannels, oc \in 1..MaxChannels :
         /\ cfg = [in_channels |-> ic, out_channels |-> oc, downscaling_factor |-> TupleVal(f)]
         /\ self = PatchMergingInit(ic, oc, TupleVal(f))
    /\ \E s \in PatchInputs : inp = Arange(s)
    /\ x = inp
    /\ pc = "L171"
    /\ err = "none"
    /\ loc = <<>>

\* lines 171-173: unpack the shape, drop the batch axis, compute the new sizes
PM_Squeeze ==
    /\ pc = "L171" /\ err = "none"
    /\ x' = Squeeze(x)
    /\ loc' = NewDims(x.shape, self.downscaling_factor)
    /\ pc' = "L175"
    /\ UNCHANGED <<err, inp, self, cfg>>

\* lines 175-177
PM_Unfold ==
    /\ pc = "L175" /\ err = "none"
    /\ LET r == UnfoldChainShape(Ok(x.shape), self.downscaling_factor)
       IN  IF r.err # "none"
           THEN err' = r.err /\ UNCHANGED <<x, pc>>
           ELSE x' = UnfoldChain(x, self.downscaling_factor) /\ pc' = "L178" /\ err' = err
    /\ UNCHANGED <<inp, self, cfg, loc>>

\* line 178
PM_Permute ==
    /\ pc = "L178" /\ err = "none"
    /\ LET r == PermuteShape(Ok(x.shape), PermuteOrder)
       IN  IF r.err # "none"
           THEN err' = r.err /\ UNCHANGED <<x, pc>>
           ELSE x' = Contiguous(Permute(x, PermuteOrder)) /\ pc' = "L179" /\ err' = err
    /\ UNCHANGED <<inp, self, cfg, loc>>

\* lines 179-180
PM_View ==
    /\ pc = "L179" /\ err = "none"
    /\ LET r == UnsqueezeShape(ViewShape(Ok(x.shape), loc))
       IN  IF r.err # "none"
           THEN err' = r.err /\ UNCHANGED <<x, pc>>
           ELSE x' = Reshape(x, r.shape) /\ pc' = "L181" /\ err' = err
    /\ UNCHANGED <<inp, self, cfg, loc>>

\* lines 181-182
PM_Linear ==
    /\ pc = "L181" /\ err = "none"
    /\ LET r == LinearShape(self.linear, Ok(x.shape))
       IN  IF r.err # "none"
           THEN err' = r.err /\ UNCHANGED <<x, pc>>
           ELSE x' = Linear(self.linear, x) /\ pc' = "done" /\ err' = err
    /\ UNCHANGED <<inp, self, cfg, loc>>

NextPatch ==
    \/ PM_Squeeze
    \/ PM_Unfold
    \/ PM_Permute
    \/ PM_View
    \/ PM_Linear

SpecPatch == InitPatch /\ [][NextPatch]_vars

PatchDivisible ==
    /\ inp.shape[3] % self.downscaling_factor[1] = 0
    /\ inp.shape[4] % self.downscaling_factor[2] = 0
    /\ inp.shape[5] % self.downscaling_factor[3] = 0

\* C1: PatchMerging.forward raises whenever H, W or D is not divisible by its
\* downscaling factor; it never returns a tensor for such an input.
C1_RaisesWhenNotDivisible ==
    pc = "done" => PatchDivisible

\* the values of the input at channel c over the block (i, j, k)
BlockValues(i, j, k) ==
    LET f == self.downscaling_factor
    IN  {At(inp, <<0, c, i * f[1] + a, j * f[2] + b, k * f[3] + e>>) :
            c \in 0..inp.shape[2] - 1, a \in 0..f[1] - 1, b \in 0..f[2] - 1, e \in 0..f[3] - 1}

RowValues(i, j, k) ==
    {At(x, <<0, i, j, k, n>>) : n \in 0..x.shape[5] - 1}

\* C7: for a batch of one and divisible sizes, the vector fed to the linear
\* projection at (i, j, k) has length C*fh*fw*fd and holds exactly the input values
\* of block (i, j, k) over all channels, every input voxel being used once; the
\* result has shape (1, H/fh, W/fw, D/fd, out_channels).
C7_BlockPartition ==
    LET f == self.downscaling_factor
        s == inp.shape
    IN  (s[1] = 1 /\ s[2] = cfg.in_channels /\ PatchDivisible) =>
          /\ pc = "L181" =>
               /\ err = "none"
               /\ x.shape = <<1, s[3] \div f[1], s[4] \div f[2], s[5] \div f[3],
                              s[2] * f[1] * f[2] * f[3]>>
               /\ \A i \in 0..x.shape[2] - 1, j \in 0..x.shape[3] - 1, k \in 0..x.shape[4] - 1 :
                    RowValues(i, j, k) = BlockValues(i, j, k)
               /\ Cardinality({x.store[n] : n \in 1..Len(x.store)}) = Prod(s)
               /\ Len(x.store) = Prod(s)
          /\ pc = "done" =>
               x.shape = <<1, s[3] \div f[1], s[4] \div f[2], s[5] \div f[3],
                           cfg.out_channels>>
          /\ pc \in {"L175", "L178", "L179"} => err = "none"

\* forward returns although a size is not divisible
C1_Dropped ==
    pc = "done" /\ ~PatchDivisible

C7_Witness ==
    /\ pc = "L181"
    /\ cfg.in_channels = 2
    /\ err = "none"
    /\ inp.shape = <<1, 2, 4, 2, 2>>
    /\ self.downscaling_factor = <<2, 2, 1>>
    /\ RowValues(1, 0, 1) = BlockValues(1, 0, 1)

(***************************************************************************)
(* get_relative_distances and WindowAttention                              *)
(***************************************************************************)
\* line 65: [[x, y, z] for x in range(w0) for y in range(w1) for z in range(w2)]
WindowIndices(w) ==
    [n \in 1..Prod(w) |-> Unravel(n - 1, w)]

Sub3(a, b) == <<a[1] - b[1], a[2] - b[2], a[3] - b[3]>>
Abs(n) == IF n < 0 THEN -n ELSE n

GetRelativeDistancesAbs(window_size) ==
    LET indices == WindowIndices(window_size)
    IN  [i \in 1..Len(indices) |-> [j \in 1..Len(indices) |->
            <<Abs(indices[j][1] - indices[i][1]), Abs(indices[j][2] - indices[i][2]),
              Abs(indices[j][3] - indices[i][3])>>]]

\* lines 64-67: distances[i, j] = indices[j] - indices[i]
GetRelativeDistances(window_size) ==
    LET indices == WindowIndices(window_size)
    IN  [i \in 1..Len(indices) |-> [j \in 1..Len(indices) |-> Sub3(indices[j], indices[i])]]

\* every component of every entry of a (window_volume, window_volume, 3) table
Entries(d) ==
    UNION {LET e == d[i][j] IN {e[1], e[2], e[3]} : <<i, j>> \in (1..Len(d)) \X (1..Len(d))}

MinOf(S) == CHOOSE m \in S : \A y \in S : m <= y
MaxOf(S) == CHOOSE m \in S : \A y \in S : m >= y

MinIndiceFirstAxis(d) ==
    MinOf({d[i][j][1] : i \in 1..Len(d), j \in 1..Len(d)})

\* line 94: relative_indices.min(), over every component of every entry
MinIndice(d) ==
    MinOf(Entries(d))

\* line 95: relative_indices += (-min_indice)
ShiftIndices(d, min_indice) ==
    [i \in 1..Len(d) |-> [j \in 1..Len(d) |-> Sub3(d[i][j], <<min_indice, min_indice, min_indice>>)]]

\* line 96: relative_indices.max()
MaxIndice(d) ==
    MaxOf(Entries(d))

\* a torch index into an axis of length n: negative indices count from the end
IndexInBounds(i, n) ==
    -n <= i /\ i < n

\* line 124: pos_embedding[indices[:, :, 0], indices[:, :, 1], indices[:, :, 2]]
LookupShape(pos_embedding, d) ==
    IF \A i \in 1..Len(d), j \in 1..Len(d) :
          LET e == d[i][j]
          IN  \A k \in 1..3 : IndexInBounds(e[k], pos_embedding[k])
    THEN Ok(<<Len(d), Len(d)>>)
    ELSE Raise("IndexError")

\* dots += bias: the bias is broadcast to the shape of dots, which is kept
AddInPlaceShape(dots, bias) ==
    IF /\ Len(bias) <= Len(dots)
       /\ \A k \in 1..Len(bias) :
            bias[k] = 1 \/ bias[k] = dots[Len(dots) - Len(bias) + k]
    THEN Ok(dots)
    ELSE Raise("RuntimeError")

\* the bias added at lines 123-126
BiasShape(m) ==
    IF m.relative_pos_embedding
    THEN LookupShape(m.pos_embedding, m.relative_indices)
    ELSE Ok(m.pos_embedding)

\* line 109: qkv.chunk(3, dim=-1), the shape of each of q, k and v
ChunkShape(r) ==
    IF r.err # "none" THEN r
    ELSE Ok([r.shape EXCEPT ![Len(r.shape)] = @ \div 3])

\* lines 110-119: the windows of q, k and v: b h (nw_h nw_w nw_d) (w_h w_w w_d) d;
\* window_size[0] of an int raises TypeError
WindowPartitionShape(r, heads, window_size) ==
    IF r.err # "none" THEN r
    ELSE IF window_size.kind # "tuple" THEN Raise("TypeError")
    ELSE IF \/ r.shape[2] % window_size.v[1] # 0
            \/ r.shape[3] % window_size.v[2] # 0
            \/ r.shape[4] % window_size.v[3] # 0
            \/ r.shape[5] % heads # 0
    THEN Raise("EinopsError")
    ELSE Ok(<<r.shape[1], heads,
              (r.shape[2] \div window_size.v[1]) * (r.shape[3] \div window_size.v[2])
                 * (r.shape[4] \div window_size.v[3]),
              window_size.v[1] * window_size.v[2] * window_size.v[3],
              r.shape[5] \div heads>>)

\* lines 110-112: nw_h, nw_w and nw_d of an input of shape s
WindowCounts(s, window_size) ==
    IF window_size.kind # "tuple" THEN <<0, 0, 0>>
    ELSE <<s[2] \div window_size.v[1], s[3] \div window_size.v[2], s[4] \div window_size.v[3]>>

\* lines 121-126 on the windows of q: dots (b, h, windows, i, j) and the bias added to it
DotsShape(m, r) ==
    IF r.err # "none" THEN r
    ELSE IF BiasShape(m).err # "none" THEN BiasShape(m)
    ELSE AddInPlaceShape([r.shape EXCEPT ![5] = r.shape[4]], BiasShape(m).shape)

\* lines 132-134: softmax and the weighted sum of v, whose last axis is the head's
AttendShape(m, r) ==
    IF r.err # "none" THEN r
    ELSE Ok([r.shape EXCEPT ![5] = m.to_qkv.out_features \div (3 * m.heads)])

WindowMergeShapeNoCount(r, w, nw) ==
    IF r.err # "none" THEN r
    ELSE Ok(<<r.shape[1], w[1], w[2], w[3], r.shape[2] * r.shape[5]>>)

\* lines 135-136: b h (nw_h nw_w nw_d) (w_h w_w w_d) d -> b (nw_h w_h) (nw_w w_w) (nw_d w_d) (h d)
WindowMergeShape(r, w, nw) ==
    IF r.err # "none" THEN r
    ELSE IF r.shape[3] # nw[1] * nw[2] * nw[3] \/ r.shape[4] # w[1] * w[2] * w[3]
    THEN Raise("EinopsError")
    ELSE Ok(<<r.shape[1], nw[1] * w[1], nw[2] * w[2], nw[3] * w[3], r.shape[2] * r.shape[5]>>)

WindowSizes ==
    {IntVal(n) : n \in 1..MaxWin} \cup {TupleVal(w) : w \in Triples(1..MaxWin)}

\* dim, heads and head_dim: inner_dim equal to dim, above it and below it
AttnWidths ==
    {[dim |-> 1, heads |-> 1, head_dim |-> 1],
     [dim |-> 1, heads |-> 2, head_dim |-> 1],
     [dim |-> 2, heads |-> 1, head_dim |-> 1],
     [dim |-> 2, heads |-> 2, head_dim |-> 2]}

AttnInputs ==
    {<<b, h, w, d, c>> : b \in 1..2, h \in 1..MaxPatchDim, w \in 1..MaxSpatial,
                         d \in 1..MaxSpatial, c \in 1..2}

InitWA ==
    /\ \E a \in AttnWidths, shifted \in BOOLEAN, ws \in WindowSizes, rel \in BOOLEAN :
         cfg = [dim |-> a.dim, heads |-> a.heads, head_dim |-> a.head_dim, shifted |-> shifted,
                window_size |-> ws, relative_pos_embedding |-> rel]
    /\ self = <<>>
    /\ x = [shape |-> <<>>]
    /\ inp = [shape |-> <<>>]
    /\ pc = "L73"
    /\ err = "none"
    /\ loc = <<>>

\* lines 73-90: the fields, the pair of shifts of a shifted block, to_qkv
WA_Init_Fields ==
    /\ pc = "L73" /\ err = "none"
    /\ LET inner_dim == cfg.head_dim * cfg.heads
           fields == [heads |-> cfg.heads, window_size |-> cfg.window_size,
                      relative_pos_embedding |-> cfg.relative_pos_embedding,
                      shifted |-> cfg.shifted,
                      to_qkv |-> [in_features |-> cfg.dim, out_features |-> inner_dim * 3]]
       IN  IF cfg.shifted /\ cfg.window_size.kind # "tuple"
           THEN err' = "TypeError" /\ UNCHANGED <<self, pc>>
           ELSE /\ self' = IF cfg.shifted THEN fields @@ ShiftPair(cfg.window_size.v) ELSE fields
                /\ pc' = IF cfg.relative_pos_embedding THEN "L93" ELSE "L99"
                /\ err' = err
    /\ UNCHANGED <<x, inp, cfg, loc>>

\* line 93
WA_Init_Distances ==
    /\ pc = "L93" /\ err = "none"
    /\ IF self.window_size.kind # "tuple"
       THEN err' = "TypeError" /\ UNCHANGED <<self, pc>>
       ELSE /\ self' = self @@ [relative_indices |-> GetRelativeDistances(self.window_size.v)]
            /\ pc' = "L94"
            /\ err' = err
    /\ UNCHANGED <<x, inp, cfg, loc>>

\* lines 94-97
WA_Init_RelativeTable ==
    /\ pc = "L94" /\ err = "none"
    /\ LET shifted == ShiftIndices(self.relative_indices, MinIndice(self.relative_indices))
           max_indice == MaxIndice(shifted)
       IN  self' = [self EXCEPT !.relative_indices = shifted]
                     @@ [pos_embedding |-> <<max_indice + 1, max_indice + 1, max_indice + 1>>]
    /\ pc' = "L101"
    /\ UNCHANGED <<err, x, inp, cfg, loc>>

\* line 99: window_size ** 2 of a tuple raises TypeError
WA_Init_AbsoluteTable ==
    /\ pc = "L99" /\ err = "none"
    /\ IF self.window_size.kind # "int"
       THEN err' = "TypeError" /\ UNCHANGED <<self, pc>>
       ELSE /\ self' = self @@ [pos_embedding |-> <<self.window_size.v[1] * self.window_size.v[1],
                                                     self.window_size.v[1] * self.window_size.v[1]>>]
            /\ pc' = "L101"
            /\ err' = err
    /\ UNCHANGED <<x, inp, cfg, loc>>

\* line 101
WA_Init_ToOut ==
    /\ pc = "L101" /\ err = "none"
    /\ self' = self @@ [to_out |-> [in_features |-> cfg.head_dim * cfg.heads,
                                    out_features |-> cfg.dim]]
    /\ pc' = "L103"
    /\ UNCHANGED <<err, x, inp, cfg, loc>>

\* lines 103-109: forward is called; the shift, the unpacking of the shape, to_qkv
\* and its three chunks
WA_Forward_QKV ==
    /\ pc = "L103" /\ err = "none"
    /\ \E s \in AttnInputs :
         /\ inp' = [shape |-> s]
         /\ LET r == ChunkShape(LinearShape(self.to_qkv, Ok(s)))
            IN  IF r.err # "none"
                THEN err' = r.err /\ UNCHANGED <<x, pc>>
                ELSE /\ x' = [shape |-> r.shape]
                     /\ pc' = "L110"
                     /\ err' = err
    /\ UNCHANGED <<self, cfg, loc>>

\* lines 110-119: window_size[0] of an int raises TypeError
WA_Forward_Windows ==
    /\ pc = "L110" /\ err = "none"
    /\ LET r == WindowPartitionShape(Ok(x.shape), self.heads, self.window_size)
       IN  IF r.err # "none"
           THEN err' = r.err /\ UNCHANGED <<x, pc, loc>>
           ELSE /\ x' = [shape |-> r.shape]
                /\ loc' = WindowCounts(x.shape, self.window_size)
                /\ pc' = "L121"
                /\ err' = err
    /\ UNCHANGED <<inp, self, cfg>>

\* lines 121-126: dots (b, h, windows, i, j) and the positional bias added to it
WA_Forward_Bias ==
    /\ pc = "L121" /\ err = "none"
    /\ LET r == DotsShape(self, Ok(x.shape))
       IN  IF r.err # "none"
           THEN err' = r.err /\ UNCHANGED <<x, pc>>
           ELSE x' = [shape |-> r.shape] /\ pc' = "L132" /\ err' = err
    /\ UNCHANGED <<inp, self, cfg, loc>>

\* lines 132-142: softmax, the weighted sum of v, the windows merged back, to_out
\* and the shift back
WA_Forward_Out ==
    /\ pc = "L132" /\ err = "none"
    /\ LET r == LinearShape(self.to_out,
                            WindowMergeShape(AttendShape(self, Ok(x.shape)),
                                             self.window_size.v, loc))
       IN  IF r.err # "none"
           THEN err' = r.err /\ UNCHANGED <<x, pc>>
           ELSE x' = [shape |-> r.shape] /\ pc' = "done" /\ err' = err
    /\ UNCHANGED <<inp, self, cfg, loc>>

NextWA ==
    \/ WA_Init_Fields
    \/ WA_Init_Distances
    \/ WA_Init_RelativeTable
    \/ WA_Init_AbsoluteTable
    \/ WA_Init_ToOut
    \/ WA_Forward_QKV
    \/ WA_Forward_Windows
    \/ WA_Forward_Bias
    \/ WA_Forward_Out

SpecWA == InitWA /\ [][NextWA]_vars

InForward == pc \in {"L110", "L121", "L132", "done"}

\* the input of the running forward call has the configured channel count and
\* spatial sizes that are multiples of the window size
WindowInput ==
    /\ InForward
    /\ cfg.window_size.kind = "tuple"
    /\ inp.shape[5] = cfg.dim
    /\ \A k \in 1..3 : inp.shape[k + 1] % cfg.window_size.v[k] = 0

\* C4: on an input (B,H,W,D,C) with C the configured dim and H, W, D multiples of
\* the window size, WindowAttention.forward, shifted or not, raises nothing and
\* returns a tensor of the shape of its input.
C4_ShapePreserved ==
    WindowInput => /\ err = "none"
                   /\ pc = "done" => x.shape = inp.shape

C4_Witness ==
    /\ WindowInput
    /\ pc = "done"
    /\ cfg.shifted
    /\ cfg.heads * cfg.head_dim # cfg.dim
    /\ inp.shape = <<2, 4, 2, 2, 1>>
    /\ cfg.window_size.v = <<2, 1, 2>>
    /\ x.shape = inp.shape

\* C8: before the shift to non-negative values, the offset triple at [i, j] is the
\* negation of the triple at [j, i], and the triple at [i, i] is (0, 0, 0).
C8_Antisymmetric ==
    pc = "L94" =>
        LET d == self.relative_indices
        IN  \A i \in 1..Len(d), j \in 1..Len(d) :
                /\ d[i][j] = Neg(d[j][i])
                /\ d[i][i] = <<0, 0, 0>>

C8_Witness ==
    /\ pc = "L94"
    /\ cfg.window_size.v = <<1, 2, 2>>
    /\ self.relative_indices[1][4] = <<0, 1, 1>>
    /\ self.relative_indices[4][1] = <<0, -1, -1>>

\* C9: in absolute positional bias mode the construction succeeds, and a bias table
\* that does not match the window volume is reported when forward adds the bias to
\* the attention scores.
C9_AbsoluteMismatchAtBiasAdd ==
    (~cfg.relative_pos_embedding /\ cfg.window_size.kind = "tuple") =>
        /\ pc \in {"L73", "L99", "L101"} => err = "none"
        /\ (InForward /\ err # "none" /\ inp.shape[5] = cfg.dim) => pc = "L121"

\* C10: after the shift by the global minimum every component of every entry of
\* relative_indices lies in 0..max_index, the bias table has max_index + 1 entries
\* per axis, and the lookup of forward raises no IndexError.
C10_IndicesInTable ==
    /\ (pc \in {"L101", "L103", "L110", "L121", "L132", "done"} /\ cfg.relative_pos_embedding) =>
          /\ \A k \in 1..3 : self.pos_embedding[k] = self.pos_embedding[1]
          /\ \A e \in Entries(self.relative_indices) :
                0 <= e /\ e <= self.pos_embedding[1] - 1
    /\ err # "IndexError"

C10_Witness ==
    /\ pc = "L132"
    /\ cfg.relative_pos_embedding
    /\ cfg.window_size.v = <<1, 2, 1>>
    /\ self.pos_embedding = <<3, 3, 3>>
    /\ self.relative_indices[2][1] = <<1, 0, 1>>

(***************************************************************************)
(* SwinBlock, StageModule and SwinTransformer, on shapes                   *)
(***************************************************************************)
\* WindowAttention.__init__ as one step
WindowAttentionInit(dim, heads, head_dim, shifted, window_size, relative_pos_embedding) ==
    LET inner_dim == head_dim * heads
        fields == [err |-> "none", heads |-> heads, window_size |-> window_size,
                   relative_pos_embedding |-> relative_pos_embedding, shifted |-> shifted,
                   to_qkv |-> [in_features |-> dim, out_features |-> inner_dim * 3],
                   to_out |-> [in_features |-> inner_dim, out_features |-> dim]]
        distances == GetRelativeDistances(window_size.v)
        indices == ShiftIndices(distances, MinIndice(distances))
        max_indice == MaxIndice(indices)
    IN  IF shifted /\ window_size.kind # "tuple" THEN [err |-> "TypeError"]
        ELSE IF relative_pos_embedding
             THEN IF window_size.kind # "tuple" THEN [err |-> "TypeError"]
                  ELSE fields @@ [relative_indices |-> indices,
                                  pos_embedding |-> <<max_indice + 1, max_indice + 1,
                                                      max_indice + 1>>]
             ELSE IF window_size.kind # "int" THEN [err |-> "TypeError"]
                  ELSE fields @@ [pos_embedding |-> <<window_size.v[1] * window_size.v[1],
                                                      window_size.v[1] * window_size.v[1]>>]

\* WindowAttention.forward as one step
WindowAttentionShape(m, r) ==
    IF r.err # "none" THEN r
    ELSE LinearShape(m.to_out,
            WindowMergeShape(
               AttendShape(m, DotsShape(m, WindowPartitionShape(
                                              ChunkShape(LinearShape(m.to_qkv, r)),
                                              m.heads, m.window_size))),
               m.window_size.v, WindowCounts(r.shape, m.window_size)))

\* nn.LayerNorm(n): the last axis has length n
LayerNormShape(n, r) ==
    IF r.err # "none" THEN r
    ELSE IF r.shape[Len(r.shape)] # n THEN Raise("RuntimeError") ELSE r

\* fn(x) + x of Residual, for two tensors with the same number of axes
AddShape(a, b) ==
    IF a.err # "none" THEN a
    ELSE IF b.err # "none" THEN b
    ELSE IF \A k \in 1..Len(a.shape) :
               a.shape[k] = b.shape[k] \/ a.shape[k] = 1 \/ b.shape[k] = 1
    THEN Ok([k \in 1..Len(a.shape) |-> IF a.shape[k] = 1 THEN b.shape[k] ELSE a.shape[k]])
    ELSE Raise("RuntimeError")

\* FeedForward.forward
FeedForwardShape(ff, r) ==
    LinearShape(ff.second, LinearShape(ff.first, r))

\* SwinBlock.__init__
SwinBlockInit(dim, heads, head_dim, mlp_dim, shifted, window_size, relative_pos_embedding) ==
    LET attention == WindowAttentionInit(dim, heads, head_dim, shifted, window_size,
                                         relative_pos_embedding)
    IN  IF attention.err # "none" THEN [err |-> attention.err]
        ELSE [err |-> "none", norm |-> dim, attention |-> attention,
              mlp |-> [first |-> [in_features |-> dim, out_features |-> mlp_dim],
                       second |-> [in_features |-> mlp_dim, out_features |-> dim]]]

\* SwinBlock.forward: attention_block, then mlp_block, each Residual(PreNorm(dim, fn)):
\* fn(norm(x)) + x
SwinBlockShape(blk, r) ==
    LET attended == AddShape(WindowAttentionShape(blk.attention, LayerNormShape(blk.norm, r)), r)
    IN  AddShape(FeedForwardShape(blk.mlp, LayerNormShape(blk.norm, attended)), attended)

LayersOkOdd(layers) ==
    layers % 2 = 1

\* line 226: assert layers % 2 == 0
LayersOk(layers) ==
    layers % 2 = 0

\* lines 231-238: layers // 2 pairs of a regular and a shifted block
StageBlocksInit(hidden_dimension, layers, num_heads, head_dim, window_size, relative) ==
    LET regular == SwinBlockInit(hidden_dimension, num_heads, head_dim, hidden_dimension * 4,
                                 FALSE, window_size, relative)
        shifted == SwinBlockInit(hidden_dimension, num_heads, head_dim, hidden_dimension * 4,
                                 TRUE, window_size, relative)
    IN  IF layers \div 2 = 0 THEN [err |-> "none", layers |-> <<>>]
        ELSE IF regular.err # "none" THEN [err |-> regular.err]
        ELSE IF shifted.err # "none" THEN [err |-> shifted.err]
        ELSE [err |-> "none", layers |-> [n \in 1..layers \div 2 |-> <<regular, shifted>>]]

\* lines 243-245: every pair of blocks in turn; after[n] is x after n pairs
BlocksShape(pairs, r) ==
    LET after[n \in 0..Len(pairs)] ==
            IF n = 0 THEN r
            ELSE SwinBlockShape(pairs[n][2], SwinBlockShape(pairs[n][1], after[n - 1]))
    IN  after[Len(pairs)]

\* StageModule.forward
StageShape(stage, r) ==
    PermuteShape(BlocksShape(stage.layers, PatchMergingShape(stage.patch_partition, r)),
                 <<0, 4, 1, 2, 3>>)

\* line 277: x.mean(dim=[2, 3])
MeanShape(r) ==
    IF r.err # "none" THEN r
    ELSE Ok(<<r.shape[1], r.shape[2]>> \o SubSeq(r.shape, 5, Len(r.shape)))

Pow2(n) == IF n = 0 THEN 1 ELSE IF n = 1 THEN 2 ELSE IF n = 2 THEN 4 ELSE 8

\* lines 254-265: the channels of the four stages
StageInChannels(k) ==
    IF k = 1 THEN cfg.channels ELSE cfg.hidden_dim * Pow2(k - 2)

StageHidden(k) ==
    cfg.hidden_dim * Pow2(k - 1)

\* the configuration of the end-to-end example: hidden_dim 64, window_size (4, 8, 8)
\* and downscaling factors (4, 2, 2, 2), as the ints of the default argument or as
\* one triple per stage; without blocks and with two blocks in every stage
ExampleConfigs ==
    {[hidden_dim |-> 64, layers |-> l, heads |-> <<2, 4, 8, 16>>, channels |-> 3,
      num_classes |-> 5, head_dim |-> 32, window_size |-> TupleVal(<<4, 8, 8>>),
      downscaling_factors |-> f, relative_pos_embedding |-> TRUE, example |-> TRUE] :
        l \in {<<0, 0, 0, 0>>, <<2, 2, 2, 2>>},
        f \in {<<IntVal(4), IntVal(2), IntVal(2), IntVal(2)>>,
               <<TupleVal(<<4, 4, 4>>), TupleVal(<<2, 2, 2>>), TupleVal(<<2, 2, 2>>),
                 TupleVal(<<2, 2, 2>>)>>}}

ExampleInput == <<1, 3, 32, 64, 64>>

NetFactors ==
    {IntVal(2), TupleVal(<<1, 1, 1>>), TupleVal(<<1, 2, 1>>)}

NetWindows ==
    {IntVal(1), TupleVal(<<1, 1, 1>>), TupleVal(<<1, 1, 2>>)}

SmallConfigs ==
    {[hidden_dim |-> 1, layers |-> <<l[1], l[2], l[3], l[4]>>, heads |-> <<1, 1, 1, 1>>,
      channels |-> 1, num_classes |-> 3, head_dim |-> 1, window_size |-> w,
      downscaling_factors |-> <<f1, f2, f2, f2>>, relative_pos_embedding |-> rel,
      example |-> FALSE] :
        l \in (0..MaxLayers) \X (0..MaxLayers) \X (0..MaxLayers) \X (0..MaxLayers),
        w \in NetWindows, f1 \in NetFactors, f2 \in NetFactors, rel \in BOOLEAN}

SmallInputs ==
    {<<b, 1, h, w, d>> : b \in 1..2, h \in 1..MaxSpatial, w \in 1..MaxSpatial, d \in {2, 8}}

InitNet ==
    /\ cfg \in ExampleConfigs \cup SmallConfigs
    /\ self = [stages |-> <<>>]
    /\ x = [shape |-> <<>>]
    /\ inp = [shape |-> <<>>]
    /\ pc = "L226"
    /\ err = "none"
    /\ loc = 1

\* lines 225-226 of the stage under construction (loc is its number)
Stage_Init_Assert ==
    /\ pc = "L226" /\ err = "none"
    /\ self' = [self EXCEPT !.stages = Append(@, <<>>)]
    /\ IF LayersOk(cfg.layers[loc])
       THEN pc' = "L228" /\ err' = err
       ELSE pc' = pc /\ err' = "AssertionError"
    /\ UNCHANGED <<x, inp, cfg, loc>>

\* lines 228-229
Stage_Init_PatchPartition ==
    /\ pc = "L228" /\ err = "none"
    /\ LET m == PatchMergingInit(StageInChannels(loc), StageHidden(loc),
                                 cfg.downscaling_factors[loc])
       IN  IF m.err # "none"
           THEN err' = m.err /\ UNCHANGED <<self, pc>>
           ELSE /\ self' = [self EXCEPT !.stages[loc] = @ @@ [patch_partition |-> m]]
                /\ pc' = "L231"
                /\ err' = err
    /\ UNCHANGED <<x, inp, cfg, loc>>

\* lines 231-238, and the next stage of SwinTransformer.__init__
Stage_Init_Blocks ==
    /\ pc = "L231" /\ err = "none"
    /\ LET b == StageBlocksInit(StageHidden(loc), cfg.layers[loc], cfg.heads[loc], cfg.head_dim,
                                cfg.window_size, cfg.relative_pos_embedding)
       IN  IF b.err # "none"
           THEN err' = b.err /\ UNCHANGED <<self, pc, loc>>
           ELSE /\ self' = [self EXCEPT !.stages[loc] = @ @@ [layers |-> b.layers]]
                /\ pc' = IF loc = 4 THEN "L267" ELSE "L226"
                /\ loc' = IF loc = 4 THEN 1 ELSE loc + 1
                /\ err' = err
    /\ UNCHANGED <<x, inp, cfg>>

\* lines 267-270
Net_Init_Head ==
    /\ pc = "L267" /\ err = "none"
    /\ self' = self @@ [mlp_head |-> [norm |-> cfg.hidden_dim * 8,
                                      linear |-> [in_features |-> cfg.hidden_dim * 8,
                                                  out_features |-> cfg.num_classes]]]
    /\ pc' = "L272"
    /\ UNCHANGED <<err, x, inp, cfg, loc>>

\* forward is called on a 5-dimensional input
Net_Call ==
    /\ pc = "L272" /\ err = "none"
    /\ \E s \in (IF cfg.example THEN {ExampleInput} ELSE SmallInputs) :
         inp' = [shape |-> s] /\ x' = [shape |-> s]
    /\ pc' = "L273"
    /\ UNCHANGED <<err, self, cfg, loc>>

\* lines 273-276: the stage whose number is loc
Net_Forward_Stage ==
    /\ pc = "L273" /\ err = "none"
    /\ LET r == StageShape(self.stages[loc], Ok(x.shape))
       IN  IF r.err # "none"
           THEN err' = r.err /\ UNCHANGED <<x, pc, loc>>
           ELSE /\ x' = [shape |-> r.shape]
                /\ pc' = IF loc = 4 THEN "L277" ELSE "L273"
                /\ loc' = IF loc = 4 THEN 4 ELSE loc + 1
                /\ err' = err
    /\ UNCHANGED <<inp, self, cfg>>

\* line 277
Net_Forward_Mean ==
    /\ pc = "L277" /\ err = "none"
    /\ x' = [shape |-> MeanShape(Ok(x.shape)).shape]
    /\ pc' = "L278"
    /\ UNCHANGED <<err, inp, self, cfg, loc>>

\* line 278: mlp_head, a LayerNorm and a Linear
Net_Forward_Head ==
    /\ pc = "L278" /\ err = "none"
    /\ LET r == LinearShape(self.mlp_head.linear, LayerNormShape(self.mlp_head.norm, Ok(x.shape)))
       IN  IF r.err # "none"
           THEN err' = r.err /\ UNCHANGED <<x, pc>>
           ELSE x' = [shape |-> r.shape] /\ pc' = "done" /\ err' = err
    /\ UNCHANGED <<inp, self, cfg, loc>>

NextNet ==
    \/ Stage_Init_Assert
    \/ Stage_Init_PatchPartition
    \/ Stage_Init_Blocks
    \/ Net_Init_Head
    \/ Net_Call
    \/ Net_Forward_Stage
    \/ Net_Forward_Mean
    \/ Net_Forward_Head

SpecNet == InitNet /\ [][NextNet]_vars

\* C2: whenever SwinTransformer.forward returns, its result has the two axes
\* (B, num_classes).
C2_OutputIsBatchByClasses ==
    pc = "done" => x.shape = <<inp.shape[1], cfg.num_classes>>

\* forward returns
C2_Returned ==
    pc = "done"

\* C3: the input (1,3,32,64,64) runs through the network with hidden_dim 64,
\* downscaling factors (4,2,2,2) and window_size (4,8,8) without error, every
\* spatial axis is 32 times smaller after stage4, and the output is (1, num_classes).
C3_EndToEnd ==
    cfg.example =>
        /\ err = "none"
        /\ pc = "L277" => \A k \in 1..3 : inp.shape[k + 2] = 32 * x.shape[k + 2]
        /\ pc = "done" => x.shape = <<1, cfg.num_classes>>

\* C6: an odd layers value fails the assertion of StageModule.__init__ before any
\* PatchMerging or SwinBlock of that stage exists and before any tensor is
\* computed; an even value never fails it.
C6_OddLayersFailFirst ==
    /\ err = "AssertionError" <=>
          (pc = "L226" /\ Len(self.stages) = loc /\ cfg.layers[loc] % 2 = 1)
    /\ err = "AssertionError" =>
          /\ DOMAIN self.stages[loc] = {}
          /\ x.shape = <<>>
    /\ \A k \in 1..Len(self.stages) :
          DOMAIN self.stages[k] # {} => cfg.layers[k] % 2 = 0
    /\ pc \in {"L228", "L231"} => cfg.layers[loc] % 2 = 0

C6_Witness ==
    /\ err = "AssertionError"
    /\ loc = 3
    /\ cfg.layers = <<2, 0, 1, 2>>
    /\ DOMAIN self.stages[2] = {"patch_partition", "layers"}
    /\ DOMAIN self.stages[3] = {}

====
